---- MODULE Spec2Model ----
(***************************************************************************)
(* A model of packages/server/lib/plugins/child/run_plugins.js: the child *)
(* process that runs the user's setupNodeEvents routine, records the      *)
(* event handlers it registers, and afterwards executes them on request   *)
(* of the parent process, answering over ipc.                             *)
(*                                                                         *)
(* JavaScript values are records with a type tag, so that undefined, null *)
(* and strings stay distinct.  Handlers are opaque names; what a handler  *)
(* does when it is called (return, throw, resolve later, reject later) is *)
(* chosen nondeterministically.                                           *)
(***************************************************************************)
EXTENDS Integers, Sequences, FiniteSets, TLC

VARIABLES
    pc,                      \* position of load(): its promise chain
    eventIdCount,            \* this.eventIdCount
    registrations,           \* this.registrations
    registeredEventsById,    \* this.registeredEventsById
    registeredEventsByName,  \* this.registeredEventsByName
    sent,                    \* every ipc.send, in order
    warnings,                \* every errors.warning('DUPLICATE_TASK_KEY', ..), in order
    modifiedCfg,             \* what setupNodeEvents resolved to
    caught,                  \* the value the promise chain of load() was rejected with
    registerCalls,           \* calls of the register callback made by user code
    invocations,             \* invocationId -> what execute() did with it
    callbackQueue,           \* settled promises whose callback has not run yet
    settleOrder,             \* invocation ids in the order their handler settled
    received,                \* invocationId -> the args of its execute:plugins message
    config,                  \* the object initialConfig: its properties and their setters
    lastWrite,               \* the last assignment user code made to it, and what it threw
    lastOp                   \* the operation the last step performed

vars == <<pc, eventIdCount, registrations, registeredEventsById,
          registeredEventsByName, sent, warnings, modifiedCfg, caught,
          registerCalls, invocations, callbackQueue, settleOrder, received,
          config, lastWrite, lastOp>>

registryVars == <<eventIdCount, registrations, registeredEventsById,
                  registeredEventsByName>>

----------------------------------------------------------------------------
(* Bounds *)

MaxRegisterCalls == 3
MaxExecRegisterCalls == 3

----------------------------------------------------------------------------
(* JavaScript values *)

UNDEFINED_SERIALIZED == "__cypress_undefined__"

Undefined == [t |-> "undefined", s |-> "", keys |-> {}]
Null == [t |-> "null", s |-> "", keys |-> {}]
Str(x) == [t |-> "string", s |-> x, keys |-> {}]
Arr(K) == [t |-> "array", s |-> "", keys |-> K]
\* a plain object that carries one truthy flag, e.g. {__cypress_task_no_argument__: true}
Flagged(x) == [t |-> "object", s |-> x, keys |-> {}]

----------------------------------------------------------------------------
(* Errors.  An error is a record: its type, the project file and testing  *)
(* type it names, and its cause (the wrapped error, the offending key or  *)
(* the offending event).                                                   *)

requiredFile == "cypress.config.js"
testingType == "e2e"

Err(type, file, tt, cause) == [type |-> type, file |-> file, testingType |-> tt, cause |-> cause]
NoErr == Err("null", "", "", "")

\* a value that was thrown, or that a promise was rejected with
Thrown(nullish, isCypressErr, err) == [nullish |-> nullish, isCypressErr |-> isCypressErr, err |-> err]
NothingThrown == Thrown(FALSE, FALSE, NoErr)

\* util.serializeError picks the fields of the error
serializeError(err) == err

getError(type, file, tt, cause) == Err(type, file, tt, cause)

----------------------------------------------------------------------------
(* Handlers.  A handler is a function (a name) or, for "task", an object  *)
(* that maps task names to values, callable or not.                        *)

TaskNames == {"t1", "t2"}
Fns == {"f1", "f2"}
MapVals == Fns \cup {"absent", "notfn"}

EmptyMap == [k \in TaskNames |-> "absent"]
Fn(f) == [kind |-> "fn", fn |-> f, map |-> EmptyMap]
Obj(m) == [kind |-> "obj", fn |-> "none", map |-> m]
NotAHandler == [kind |-> "other", fn |-> "none", map |-> EmptyMap]

\* _.keys(object)
Keys(m) == {k \in TaskNames : m[k] # "absent"}
\* _.isFunction(value)
isFunction(v) == v \in Fns

----------------------------------------------------------------------------
(* Configuration objects.  A configuration has its own options ("root")   *)
(* and may have one sub-object per testing type.                           *)

optionsNonValidFor10Anywhere == <<"integrationFolder", "componentFolder", "pluginsFile">>
optionsNonValidFor10Global == <<"baseUrl", "supportFile">>
testingTypes == <<"component", "e2e">>

Range(seq) == {seq[i] : i \in DOMAIN seq}

CfgKeys == Range(optionsNonValidFor10Global) \cup Range(optionsNonValidFor10Anywhere)
CfgScopes == {"root"} \cup Range(testingTypes)
OptVals == {"undefined", "falsy", "truthy"}

NoOpts == [k \in CfgKeys |-> "undefined"]
CleanCfg == [sc \in CfgScopes |-> [present |-> (sc = "root"), opts |-> NoOpts]]
\* the configuration cfg with option key of scope sc set to v
WithOpt(cfg, sc, key, v) ==
    [cfg EXCEPT ![sc] = [present |-> TRUE, opts |-> [cfg[sc].opts EXCEPT ![key] = v]]]

\* `${testingType}.${key}`
ScopedKey(tt, key) ==
    CASE tt = "component" /\ key = "integrationFolder" -> "component.integrationFolder"
      [] tt = "component" /\ key = "componentFolder" -> "component.componentFolder"
      [] tt = "component" /\ key = "pluginsFile" -> "component.pluginsFile"
      [] tt = "e2e" /\ key = "integrationFolder" -> "e2e.integrationFolder"
      [] tt = "e2e" /\ key = "componentFolder" -> "e2e.componentFolder"
      [] tt = "e2e" /\ key = "pluginsFile" -> "e2e.pluginsFile"
      [] OTHER -> key

\* the error throwInvalidOptionError(key) throws
throwInvalidOptionError(key) ==
    Thrown(FALSE, TRUE, getError("MIGRATED_OPTION_INVALID", "", "", key))

\* the option is there, whatever its value
OptPresent(options, sc, key) == options[sc].present /\ options[sc].opts[key] # "undefined"

\* options[key], resp. options[testingType] && options[testingType][key], is truthy
OptTruthy(options, sc, key) == options[sc].present /\ options[sc].opts[key] = "truthy"

\* The checks of validateNonMigratedOptions in the order the two forEach
\* loops make them: the global keys at the root, then for each key that is
\* valid nowhere the root, then each testing type.
GlobalChecks ==
    [i \in 1..Len(optionsNonValidFor10Global) |->
        [sc |-> "root", key |-> optionsNonValidFor10Global[i],
         name |-> optionsNonValidFor10Global[i]]]

AnywhereChecks ==
    [n \in 1..(Len(optionsNonValidFor10Anywhere) * (1 + Len(testingTypes))) |->
        LET key == optionsNonValidFor10Anywhere[((n - 1) \div (1 + Len(testingTypes))) + 1]
            j == (n - 1) % (1 + Len(testingTypes))
        IN  IF j = 0
            THEN [sc |-> "root", key |-> key, name |-> key]
            ELSE [sc |-> testingTypes[j], key |-> key, name |-> ScopedKey(testingTypes[j], key)]]

\* validateNonMigratedOptions(options): the value it throws, or NothingThrown
validateNonMigratedOptions(options) ==
    LET checks == GlobalChecks \o AnywhereChecks
        failing == {i \in DOMAIN checks : OptTruthy(options, checks[i].sc, checks[i].key)}
    IN  IF failing = {}
        THEN NothingThrown
        ELSE LET first == CHOOSE i \in failing : \A j \in failing : i <= j
             IN  throwInvalidOptionError(checks[first].name)

\* The object initialConfig: what its properties read as (cfg), and the
\* key the setter of a property throws with, "" for a property without one
NoSetters == [sc \in CfgScopes |-> [k \in CfgKeys |-> ""]]
ConfigObject(cfg) == [cfg |-> cfg, setters |-> NoSetters]

\* Object.defineProperty(opts, key, { set: throwInvalidOptionError.bind(null, keyForError) }):
\* the property becomes an accessor without a getter, it reads as undefined
setInvalidPropSetterWarning(o, sc, key, keyForError) ==
    [o EXCEPT !.cfg[sc].opts[key] = "undefined", !.setters[sc][key] = keyForError]

\* options[testingType] = options[testingType] || {}
EnsureTestingType(o, tt) ==
    IF o.cfg[tt].present THEN o
    ELSE [o EXCEPT !.cfg[tt] = [present |-> TRUE, opts |-> NoOpts]]

\* optionsNonValidFor10Global.forEach, from the i-th key on
RECURSIVE WrapGlobal(_, _)
WrapGlobal(o, i) ==
    IF i > Len(optionsNonValidFor10Global) THEN o
    ELSE WrapGlobal(setInvalidPropSetterWarning(o, "root", optionsNonValidFor10Global[i],
                                                optionsNonValidFor10Global[i]), i + 1)

\* testingTypes.forEach for one key, from the j-th testing type on
RECURSIVE WrapTestingTypes(_, _, _)
WrapTestingTypes(o, key, j) ==
    IF j > Len(testingTypes) THEN o
    ELSE WrapTestingTypes(
             setInvalidPropSetterWarning(EnsureTestingType(o, testingTypes[j]), testingTypes[j],
                                         key, ScopedKey(testingTypes[j], key)),
             key, j + 1)

\* optionsNonValidFor10Anywhere.forEach, from the i-th key on
RECURSIVE WrapAnywhere(_, _)
WrapAnywhere(o, i) ==
    IF i > Len(optionsNonValidFor10Anywhere) THEN o
    ELSE WrapAnywhere(
             WrapTestingTypes(
                 setInvalidPropSetterWarning(o, "root", optionsNonValidFor10Anywhere[i],
                                             optionsNonValidFor10Anywhere[i]),
                 optionsNonValidFor10Anywhere[i], 1),
             i + 1)

\* no setter is put on the object
wrapNonMigratedOptionsNot(options) == options

\* wrapNonMigratedOptions(options)
wrapNonMigratedOptions(options) == WrapAnywhere(WrapGlobal(options, 1), 1)

\* an assignment to a property of the object, or of one of its testing types
NoWrite == [n |-> 0, sc |-> "", key |-> "", value |-> "undefined", thrown |-> NothingThrown]
Write(n, sc, key, value, thrown) ==
    [n |-> n, sc |-> sc, key |-> key, value |-> value, thrown |-> thrown]

\* what setupNodeEvents resolves to: nothing, or a configuration object
NoCfgResult == [truthy |-> FALSE, cfg |-> CleanCfg]
CfgResult(cfg) == [truthy |-> TRUE, cfg |-> cfg]

initialConfig == [testingType |-> testingType, projectRoot |-> "/project"]

----------------------------------------------------------------------------
(* Event names and their validation *)

InternalEvents == {"_get:task:body", "_get:task:keys"}
PromiseEvents == {"before:run", "before:spec", "after:run", "after:spec", "after:screenshot"}
WrappedEvents == {"dev-server:start", "file:preprocessor", "before:browser:launch"}
UserEvents == PromiseEvents \cup WrappedEvents \cup {"task"}

\* validateEvent(event, handler, config): an unknown name is answered with
\* the list of user events, a handler of the wrong type without it
validateEvent(event, handler) ==
    IF event \notin UserEvents \cup InternalEvents
    THEN [isValid |-> FALSE, userEvents |-> TRUE, error |-> "invalid event name"]
    ELSE IF handler.kind # (IF event = "task" THEN "obj" ELSE "fn")
    THEN [isValid |-> FALSE, userEvents |-> FALSE, error |-> "invalid handler"]
    ELSE [isValid |-> TRUE, userEvents |-> FALSE, error |-> ""]

----------------------------------------------------------------------------
(* ipc messages *)

Msg(type, invocationId, error, value) ==
    [type |-> type, invocationId |-> invocationId, error |-> error, value |-> value,
     registrations |-> <<>>, setupConfig |-> NoCfgResult]

SetupError(err) == Msg("setupTestingType:error", "", serializeError(err), Undefined)

SetupReply(cfg, regs) ==
    [Msg("setupTestingType:reply", "", NoErr, Undefined)
        EXCEPT !.registrations = regs, !.setupConfig = cfg]

\* ipc.send(`promise:fulfilled:${ids.invocationId}`, error, value)
Fulfilled(invocationId, error, value) == Msg("promise:fulfilled", invocationId, error, value)

----------------------------------------------------------------------------
(* The registry: registerChildEvent of load() *)

\* no such property: the lookup gives undefined
NoId == -1
\* the truth value JavaScript gives an id, or undefined
IsTruthyId(id) == id # NoId /\ id # 0
\* this.registeredEventsByName[event]
ByName(byName, event) == IF event \in DOMAIN byName THEN byName[event] ELSE NoId

\* the function f with x sent to v only if x is not in its domain
PutKeepsFirst(f, x, v) == [y \in DOMAIN f \cup {x} |-> IF y \in DOMAIN f THEN f[y] ELSE v]

\* the function f with x sent to v, x in its domain or not
Put(f, x, v) == [y \in DOMAIN f \cup {x} |-> IF y = x THEN v ELSE f[y]]

\* the part of the object that registerChildEvent reads and writes
Registry ==
    [eventIdCount |-> eventIdCount, registrations |-> registrations,
     byId |-> registeredEventsById, byName |-> registeredEventsByName,
     sent |-> sent, warnings |-> warnings]

\* taskMerge(target, events): the warnings it makes ...
taskMergeWarnings(target, events) ==
    LET duplicates == Keys(target) \cap Keys(events)
    IN  IF duplicates # {} THEN <<duplicates>> ELSE <<>>

\* _.defaults in place of _.extend: the earlier handler wins
taskMergeEarlierWins(target, events) ==
    [k \in TaskNames |-> IF target[k] # "absent" THEN target[k] ELSE events[k]]

\* ... and _.extend(target, events)
taskMerge(target, events) ==
    [k \in TaskNames |-> IF events[k] # "absent" THEN events[k] ELSE target[k]]

\* the check for a second dev server left out
IsSecondDevServerNever(byName, event) == FALSE

\* event === 'dev-server:start' && this.registeredEventsByName[event]
IsSecondDevServer(byName, event) ==
    event = "dev-server:start" /\ IsTruthyId(ByName(byName, event))

\* the lookup of an existing task registration left out
IsTaskMergeNever(byName, event) == FALSE

\* event === 'task' and existingEventId is truthy
IsTaskMerge(byName, event) ==
    event = "task" /\ IsTruthyId(ByName(byName, event))

\* a merge that also takes an id
MergeTaskTakesId(r, event, handler) ==
    LET existingEventId == ByName(r.byName, event)
        target == r.byId[existingEventId].handler.map
    IN  [r EXCEPT
            !.eventIdCount = r.eventIdCount + 1,
            !.warnings = r.warnings \o taskMergeWarnings(target, handler.map),
            !.byId = [r.byId EXCEPT ![existingEventId] =
                         [event |-> event, handler |-> Obj(taskMerge(target, handler.map))]]]

\* the merge into the registration that exists
MergeTask(r, event, handler) ==
    LET existingEventId == ByName(r.byName, event)
        target == r.byId[existingEventId].handler.map
    IN  [r EXCEPT
            !.warnings = r.warnings \o taskMergeWarnings(target, handler.map),
            !.byId = [r.byId EXCEPT ![existingEventId] =
                         [event |-> event, handler |-> Obj(taskMerge(target, handler.map))]]]

\* a store that puts the handler under the id the event already has
StoreEventInPlace(r, event, handler) ==
    LET known == IsTruthyId(ByName(r.byName, event))
        eventId == IF known THEN ByName(r.byName, event) ELSE r.eventIdCount
    IN  [r EXCEPT
            !.eventIdCount = IF known THEN r.eventIdCount ELSE r.eventIdCount + 1,
            !.byId = Put(r.byId, eventId, [event |-> event, handler |-> handler]),
            !.byName = Put(r.byName, event, eventId),
            !.registrations = IF known THEN r.registrations
                              ELSE Append(r.registrations, [event |-> event, eventId |-> eventId])]

\* const eventId = this.eventIdCount++ and the three stores
StoreEvent(r, event, handler) ==
    LET eventId == r.eventIdCount
    IN  [r EXCEPT
            !.eventIdCount = r.eventIdCount + 1,
            !.byId = Put(r.byId, eventId, [event |-> event, handler |-> handler]),
            !.byName = Put(r.byName, event, eventId),
            !.registrations = Append(r.registrations, [event |-> event, eventId |-> eventId])]

\* the error a rejected event is answered with
InvalidEventError(v, event) ==
    IF v.userEvents
    THEN getError("PLUGINS_INVALID_EVENT_NAME_ERROR", requiredFile, "", event)
    ELSE getError("CONFIG_FILE_SETUP_NODE_EVENTS_ERROR", requiredFile,
                  initialConfig.testingType, v.error)

\* registerChildEvent without the return that follows the report of an
\* invalid event
registerChildEventNoReturn(r, event, handler) ==
    LET v == validateEvent(event, handler)
        r1 == IF ~v.isValid
              THEN [r EXCEPT !.sent = Append(r.sent, SetupError(InvalidEventError(v, event)))]
              ELSE r
    IN  IF IsSecondDevServer(r1.byName, event)
        THEN [r1 EXCEPT !.sent = Append(r1.sent, SetupError(
                 getError("SETUP_NODE_EVENTS_DO_NOT_SUPPORT_DEV_SERVER", requiredFile, "", "")))]
        ELSE IF IsTaskMerge(r1.byName, event) /\ handler.kind = "obj"
        THEN MergeTask(r1, event, handler)
        ELSE StoreEvent(r1, event, handler)

\* registerChildEvent(event, handler), on the registry r
registerChildEvent(r, event, handler) ==
    LET v == validateEvent(event, handler)
    IN  IF ~v.isValid
        THEN [r EXCEPT !.sent = Append(r.sent, SetupError(InvalidEventError(v, event)))]
        ELSE IF IsSecondDevServer(r.byName, event)
        THEN [r EXCEPT !.sent = Append(r.sent, SetupError(
                 getError("SETUP_NODE_EVENTS_DO_NOT_SUPPORT_DEV_SERVER", requiredFile, "", "")))]
        ELSE IF IsTaskMerge(r.byName, event)
        THEN MergeTask(r, event, handler)
        ELSE StoreEvent(r, event, handler)

\* the variables take the registry r
SetRegistry(r) ==
    /\ eventIdCount' = r.eventIdCount
    /\ registrations' = r.registrations
    /\ registeredEventsById' = r.byId
    /\ registeredEventsByName' = r.byName
    /\ sent' = r.sent
    /\ warnings' = r.warnings

----------------------------------------------------------------------------
(* Inputs *)

\* the task objects a setup routine registers
M1 == [EmptyMap EXCEPT !["t1"] = "f1"]
M2 == [EmptyMap EXCEPT !["t2"] = "f2"]
M3 == [EmptyMap EXCEPT !["t1"] = "f2", !["t2"] = "notfn"]
TaskMaps == {M1, M2, M3}

\* the calls on(event, handler) a setup routine makes
RegInputs ==
    {<<"task", Obj(m)>> : m \in TaskMaps}
    \cup {<<"dev-server:start", Fn(f)>> : f \in Fns}
    \cup {<<"before:run", Fn(f)>> : f \in Fns}
    \cup {<<"file:preprocessor", Fn("f1")>>, <<"not:an:event", Fn("f1")>>,
          <<"task", Fn("f1")>>}

\* the configurations a setup routine returns
SampleCfgs ==
    {WithOpt(CleanCfg, "e2e", "baseUrl", "truthy"),
     WithOpt(CleanCfg, "root", "baseUrl", "truthy"),
     WithOpt(CleanCfg, "e2e", "integrationFolder", "truthy")}
SetupResults == {NoCfgResult} \cup {CfgResult(c) : c \in SampleCfgs}

\* the values a setup routine throws or rejects with
PlainError == Thrown(FALSE, FALSE, Err("Error", "", "", "setup failed"))
\* null or undefined: the two are read alike
ThrownNull == Thrown(TRUE, FALSE, Err("null", "", "", ""))
ThrownValues == {PlainError, throwInvalidOptionError("baseUrl"), ThrownNull}

\* require('@cypress/webpack-batteries-included-preprocessor') failed
PreprocessorError == Thrown(FALSE, FALSE, Err("Error", "", "", "Cannot find module"))

----------------------------------------------------------------------------
(* The state after construction *)

NoOp == [op |-> "new", event |-> "", handler |-> NotAHandler, invocationId |-> ""]
Op(op, event, handler, invocationId) ==
    [op |-> op, event |-> event, handler |-> handler, invocationId |-> invocationId]

InvocationIds == {"A", "B"}

NoOutcome == [ok |-> TRUE, value |-> Undefined, error |-> NoErr]
NoInvocation ==
    [status |-> "none", event |-> "", eventId |-> NoId, called |-> "none",
     arg |-> Undefined, outcome |-> NoOutcome]

\* args of execute(event, ids, args): args[0] and args[1]
Args(task, arg) == [task |-> task, arg |-> arg]
NoArgs == Args("", Undefined)

\* the configuration the parent passes to runSetupNodeEvents
DefaultConfig == WithOpt(CleanCfg, "e2e", "baseUrl", "truthy")

\* new RunPlugins(ipc, projectRoot, requiredFile)
InitRunPlugins ==
    /\ pc = "constructed"
    /\ eventIdCount = 0
    /\ registrations = <<>>
    /\ registeredEventsById = [i \in {} |-> [event |-> "", handler |-> NotAHandler]]
    /\ registeredEventsByName = [e \in {} |-> 0]
    /\ sent = <<>>
    /\ warnings = <<>>
    /\ modifiedCfg = NoCfgResult
    /\ caught = NothingThrown
    /\ registerCalls = 0
    /\ invocations = [i \in InvocationIds |-> NoInvocation]
    /\ callbackQueue = <<>>
    /\ settleOrder = <<>>
    /\ received = [i \in InvocationIds |-> NoArgs]
    /\ lastWrite = NoWrite
    /\ lastOp = NoOp

Init ==
    /\ config = ConfigObject(DefaultConfig)
    /\ InitRunPlugins

execVars == <<invocations, callbackQueue, settleOrder, received>>
configVars == <<config, lastWrite>>

----------------------------------------------------------------------------
(* load(initialConfig, setupNodeEvents) *)

\* getDefaultPreprocessor(config)
getDefaultPreprocessor == Fn("webpackPreprocessor")

\* load() without the two events of the parent/child protocol
RunSetupNodeEventsNoInternal ==
    /\ pc = "constructed"
    /\ pc' = "setup"
    /\ config' = wrapNonMigratedOptions(config)
    /\ lastOp' = Op("load", "", NotAHandler, "")
    /\ UNCHANGED <<registryVars, sent, warnings, modifiedCfg, caught, registerCalls, execVars,
                   lastWrite>>

\* runSetupNodeEvents calls load: the two events of the parent/child
\* protocol are registered, the setters are put on the configuration and
\* setupNodeEvents is called
RunSetupNodeEvents ==
    /\ pc = "constructed"
    /\ SetRegistry(registerChildEvent(
           registerChildEvent(Registry, "_get:task:body", Fn("noop")),
           "_get:task:keys", Fn("noop")))
    /\ pc' = "setup"
    /\ config' = wrapNonMigratedOptions(config)
    /\ lastOp' = Op("load", "", NotAHandler, "")
    /\ UNCHANGED <<modifiedCfg, caught, registerCalls, execVars, lastWrite>>

\* user code calls the callback it was given: on(event, handler)
Register(event, handler, max) ==
    /\ pc # "constructed"
    /\ registerCalls < max
    /\ SetRegistry(registerChildEvent(Registry, event, handler))
    /\ registerCalls' = registerCalls + 1
    /\ lastOp' = Op("register", event, handler, "")
    /\ UNCHANGED <<pc, modifiedCfg, caught, execVars, configVars>>

\* setupNodeEvents returns, or the promise it returned is resolved
SetupReturns(result) ==
    /\ pc = "setup"
    /\ pc' = "tap"
    /\ modifiedCfg' = result
    /\ lastOp' = Op("setupReturns", "", NotAHandler, "")
    /\ UNCHANGED <<registryVars, sent, warnings, caught, registerCalls, execVars, configVars>>

\* setupNodeEvents throws, or the promise it returned is rejected
SetupThrows(v) ==
    /\ pc = "setup"
    /\ pc' = "catch"
    /\ caught' = v
    /\ lastOp' = Op("setupThrows", "", NotAHandler, "")
    /\ UNCHANGED <<registryVars, sent, warnings, modifiedCfg, registerCalls, execVars, configVars>>

\* the default preprocessor registered whatever is registered
NeedsDefaultPreprocessorAlways(byName) == TRUE

\* .tap: the default preprocessor, unless one is registered
NeedsDefaultPreprocessor(byName) == ~IsTruthyId(ByName(byName, "file:preprocessor"))

Tap ==
    /\ pc = "tap"
    /\ lastOp' = Op("tap", "", NotAHandler, "")
    /\ IF NeedsDefaultPreprocessor(registeredEventsByName)
       THEN \/ /\ SetRegistry(registerChildEvent(Registry, "file:preprocessor",
                                                 getDefaultPreprocessor))
               /\ pc' = "then"
               /\ UNCHANGED caught
            \/ /\ pc' = "catch"
               /\ caught' = PreprocessorError
               /\ UNCHANGED <<registryVars, sent, warnings>>
       ELSE /\ pc' = "then"
            /\ UNCHANGED <<registryVars, sent, warnings, caught>>
    /\ UNCHANGED <<modifiedCfg, registerCalls, execVars, configVars>>

\* modifiedCfg && validateNonMigratedOptions(modifiedCfg)
ValidationOf(cfg) ==
    IF cfg.truthy THEN validateNonMigratedOptions(cfg.cfg) ELSE NothingThrown

\* the reply sent before the configuration is validated
ThenReplyFirst ==
    /\ pc = "then"
    /\ lastOp' = Op("then", "", NotAHandler, "")
    /\ sent' = Append(sent, SetupReply(modifiedCfg, registrations))
    /\ IF ValidationOf(modifiedCfg) # NothingThrown
       THEN /\ pc' = "catch"
            /\ caught' = ValidationOf(modifiedCfg)
       ELSE /\ pc' = "done"
            /\ UNCHANGED caught
    /\ UNCHANGED <<registryVars, warnings, modifiedCfg, registerCalls, execVars, configVars>>

\* .then: the configuration is validated and the reply is sent
Then ==
    /\ pc = "then"
    /\ lastOp' = Op("then", "", NotAHandler, "")
    /\ IF ValidationOf(modifiedCfg) # NothingThrown
       THEN /\ pc' = "catch"
            /\ caught' = ValidationOf(modifiedCfg)
            /\ UNCHANGED sent
       ELSE /\ pc' = "done"
            /\ sent' = Append(sent, SetupReply(modifiedCfg, registrations))
            /\ UNCHANGED caught
    /\ UNCHANGED <<registryVars, warnings, modifiedCfg, registerCalls, execVars, configVars>>

\* err.isCypressErr ? err : getError('CONFIG_FILE_SETUP_NODE_EVENTS_ERROR', ..)
processedError(v) ==
    IF v.isCypressErr
    THEN v.err
    ELSE getError("CONFIG_FILE_SETUP_NODE_EVENTS_ERROR", requiredFile,
                  initialConfig.testingType, v.err.type)

\* .catch: reading err.isCypressErr of null or undefined is a TypeError,
\* thrown in the last handler of the chain: nothing is sent
Catch ==
    /\ pc = "catch"
    /\ lastOp' = Op("catch", "", NotAHandler, "")
    /\ IF caught.nullish
       THEN /\ pc' = "unhandled"
            /\ UNCHANGED sent
       ELSE /\ pc' = "failed"
            /\ sent' = Append(sent, SetupError(processedError(caught)))
    /\ UNCHANGED <<registryVars, warnings, modifiedCfg, caught, registerCalls, execVars, configVars>>

----------------------------------------------------------------------------
(* execute(event, ids, args) and the promises it makes *)

\* the ids execute() is called with, in the order the parent uses them
InvocationOrder == <<"A", "B">>
Used == {i \in InvocationIds : invocations[i].status # "none"}
NextInvocationId == InvocationOrder[Cardinality(Used) + 1]

\* what the handlers resolve to, and the error they throw or reject with
ResultVals == {Undefined, Null, Str(UNDEFINED_SERIALIZED), Str("v1")}
HandlerError == Err("Error", "", "", "handler failed")
TypeError == Err("TypeError", "", "", "")
Resolved(v) == [ok |-> TRUE, value |-> v, error |-> NoErr]
Rejected(e) == [ok |-> FALSE, value |-> Undefined, error |-> e]
Outcomes == {Resolved(v) : v \in ResultVals} \cup {Rejected(HandlerError)}

\* fn.toString()
SourceText(f) == IF f = "f1" THEN Str("() => 'one'") ELSE Str("() => 'two'")

NO_ARGUMENT == "__cypress_task_no_argument__"
UNHANDLED == "__cypress_unhandled__"

\* the events, the task names and the arguments the parent sends
ExecEvents ==
    {"before:run", "file:preprocessor", "task", "_get:task:keys", "_get:task:body",
     "unexpected:event"}
ExecArgs(event) ==
    IF event = "task"
    THEN {<<n, a>> : n \in TaskNames, a \in {Flagged(NO_ARGUMENT), Str("a1"), Null}}
    ELSE IF event = "_get:task:body"
    THEN {<<n, Undefined>> : n \in TaskNames}
    ELSE {<<"", Str("a1")>>}
\* the ids of the registrations of the event, and one id that was never given
ExecEventIds(event) ==
    {i \in DOMAIN registeredEventsById : registeredEventsById[i].event = event}
    \cup {eventIdCount}

\* the promise of invocation id is pending: its handler was called with arg
Pending(id, event, eventId, called, arg) ==
    /\ invocations' = [invocations EXCEPT ![id] =
           [status |-> "pending", event |-> event, eventId |-> eventId,
            called |-> called, arg |-> arg, outcome |-> NoOutcome]]
    /\ UNCHANGED <<callbackQueue, settleOrder>>

\* the promise of invocation id is settled before execute() returns
SettledNow(id, event, eventId, called, arg, outcome) ==
    /\ invocations' = [invocations EXCEPT ![id] =
           [status |-> "settled", event |-> event, eventId |-> eventId,
            called |-> called, arg |-> arg, outcome |-> outcome]]
    /\ callbackQueue' = Append(callbackQueue, [invocationId |-> id, stage |-> "then"])
    /\ settleOrder' = Append(settleOrder, id)

\* execute() never left without a promise: the invocation is rejected
LeftRejected(id, event, eventId, status) ==
    /\ invocations' = [invocations EXCEPT ![id] =
           [status |-> "settled", event |-> event, eventId |-> eventId,
            called |-> "none", arg |-> Undefined, outcome |-> Rejected(TypeError)]]
    /\ callbackQueue' = Append(callbackQueue, [invocationId |-> id, stage |-> "then"])
    /\ settleOrder' = Append(settleOrder, id)

\* execute() is left without a promise: by the default case, or by an exception
Left(id, event, eventId, status) ==
    /\ invocations' = [invocations EXCEPT ![id] =
           [status |-> status, event |-> event, eventId |-> eventId,
            called |-> "none", arg |-> Undefined, outcome |-> NoOutcome]]
    /\ UNCHANGED <<callbackQueue, settleOrder>>

\* a handler is called: it returns or throws, or returns a pending promise
Call(id, event, eventId, fn, arg) ==
    \/ Pending(id, event, eventId, fn, arg)
    \/ \E o \in Outcomes : SettledNow(id, event, eventId, fn, arg, o)

\* invoke(eventId, args) inside util.wrapChildPromise
Invoke(id, event, eventId, arg) ==
    IF eventId \in DOMAIN registeredEventsById
       /\ registeredEventsById[eventId].handler.kind = "fn"
    THEN Call(id, event, eventId, registeredEventsById[eventId].handler.fn, arg)
    ELSE SettledNow(id, event, eventId, "none", arg, Rejected(TypeError))

\* devServer.wrap, preprocessor.wrap and browserLaunch.wrap: they call invoke
\* and report by the same promise-wrapped convention
ExecutorWrap(id, event, eventId, arg) == Invoke(id, event, eventId, arg)

\* the argument handed on as the parent sent it
DecodeTaskArgAsSent(arg) == arg

\* arg && arg.__cypress_task_no_argument__ ? undefined : arg
DecodeTaskArg(arg) == IF arg = Flagged(NO_ARGUMENT) THEN Undefined ELSE arg

\* _.get(this.registeredEventsById, `${eventId}.handler.${task}`)
TaskHandler(byId, eventId, task) ==
    IF eventId \in DOMAIN byId /\ byId[eventId].handler.kind = "obj"
    THEN byId[eventId].handler.map[task]
    ELSE "absent"

\* a task that is not bound to a function rejects
taskExecuteRejects(id, eventId, task, arg) ==
    LET handler == TaskHandler(registeredEventsById, eventId, task)
    IN  IF isFunction(handler)
        THEN Call(id, "task", eventId, handler, DecodeTaskArg(arg))
        ELSE SettledNow(id, "task", eventId, "none", DecodeTaskArg(arg),
                        Rejected(TypeError))

taskExecute(id, eventId, task, arg) ==
    LET handler == TaskHandler(registeredEventsById, eventId, task)
    IN  IF isFunction(handler)
        THEN Call(id, "task", eventId, handler, DecodeTaskArg(arg))
        ELSE SettledNow(id, "task", eventId, "none", DecodeTaskArg(arg),
                        Resolved(Str(UNHANDLED)))

\* _.find(this.registeredEventsById, { event: 'task' })
TaskIds(byId) == {i \in DOMAIN byId : byId[i].event = "task"}
FindTask(byId) == byId[CHOOSE i \in TaskIds(byId) : \A j \in TaskIds(byId) : i <= j]

taskGetKeys(id, eventId) ==
    IF TaskIds(registeredEventsById) = {}
    THEN Left(id, "_get:task:keys", eventId, "threw")
    ELSE SettledNow(id, "_get:task:keys", eventId, "none", Undefined,
                    Resolved(Arr(Keys(FindTask(registeredEventsById).handler.map))))

\* the handler registered for the event is invoked
taskGetBodyInvokes(id, eventId, task) ==
    Invoke(id, "_get:task:body", eventId, Str(task))

taskGetBody(id, eventId, task) ==
    IF TaskIds(registeredEventsById) = {}
    THEN Left(id, "_get:task:body", eventId, "threw")
    ELSE LET fn == FindTask(registeredEventsById).handler.map[task]
         IN  SettledNow(id, "_get:task:body", eventId, "none", Undefined,
                        Resolved(IF isFunction(fn) THEN SourceText(fn) ELSE Str("")))

\* an execute that takes an id of the registry for the invocation
ExecuteTakesId(event, eventId, task, arg) ==
    /\ pc # "constructed"
    /\ Used # InvocationIds
    /\ LET id == NextInvocationId
       IN  /\ lastOp' = Op("execute", event, NotAHandler, id)
           /\ received' = [received EXCEPT ![id] = Args(task, arg)]
           /\ CASE event \in PromiseEvents -> Invoke(id, event, eventId, arg)
                [] event \in WrappedEvents -> ExecutorWrap(id, event, eventId, arg)
                [] event = "task" -> taskExecute(id, eventId, task, arg)
                [] event = "_get:task:keys" -> taskGetKeys(id, eventId)
                [] event = "_get:task:body" -> taskGetBody(id, eventId, task)
                [] OTHER -> Left(id, event, eventId, "ignored")
    /\ eventIdCount' = eventIdCount + 1
    /\ UNCHANGED <<pc, registrations, registeredEventsById, registeredEventsByName, sent,
                   warnings, modifiedCfg, caught, registerCalls, configVars>>

\* the parent sends execute:plugins
Execute(event, eventId, task, arg) ==
    /\ pc # "constructed"
    /\ Used # InvocationIds
    /\ LET id == NextInvocationId
       IN  /\ lastOp' = Op("execute", event, NotAHandler, id)
           /\ received' = [received EXCEPT ![id] = Args(task, arg)]
           /\ CASE event \in PromiseEvents -> Invoke(id, event, eventId, arg)
                [] event \in WrappedEvents -> ExecutorWrap(id, event, eventId, arg)
                [] event = "task" -> taskExecute(id, eventId, task, arg)
                [] event = "_get:task:keys" -> taskGetKeys(id, eventId)
                [] event = "_get:task:body" -> taskGetBody(id, eventId, task)
                [] OTHER -> Left(id, event, eventId, "ignored")
    /\ UNCHANGED <<pc, registryVars, sent, warnings, modifiedCfg, caught, registerCalls,
                   configVars>>

\* the promise a handler returned is resolved or rejected
Settle(id, outcome) ==
    /\ invocations[id].status = "pending"
    /\ invocations' = [invocations EXCEPT ![id].status = "settled", ![id].outcome = outcome]
    /\ callbackQueue' = Append(callbackQueue, [invocationId |-> id, stage |-> "then"])
    /\ settleOrder' = Append(settleOrder, id)
    /\ lastOp' = Op("settle", "", NotAHandler, id)
    /\ UNCHANGED <<pc, registryVars, sent, warnings, modifiedCfg, caught, registerCalls,
                   received, configVars>>

\* value == null in place of value === undefined
SerializeValueLoose(value) ==
    IF value = Undefined \/ value = Null THEN Str(UNDEFINED_SERIALIZED) ELSE value

\* value === undefined ? UNDEFINED_SERIALIZED : value
SerializeValue(value) == IF value = Undefined THEN Str(UNDEFINED_SERIALIZED) ELSE value

\* the message of the .then callback of wrapChildPromise
ThenMessage(id, value) == Fulfilled(id, NoErr, SerializeValue(value))
\* the error sent in the place of the value
CatchMessageAsValue(id, err) == Fulfilled(id, NoErr, Str(err.type))

\* the message of its .catch callback
CatchMessage(id, err) == Fulfilled(id, serializeError(err), Undefined)

\* the callback queued last runs first
NextCallbackLast(queue) == Len(queue)

\* which callback runs next: the one queued first
NextCallback(queue) == 1

\* what ipc makes of a value it carries: undefined is coerced into null
Transport(value) == IF value = Undefined THEN Null ELSE value
\* what the receiver of an outcome makes of its value
ReceiverDecode(value) == IF value = Str(UNDEFINED_SERIALIZED) THEN Undefined ELSE value

\* a callback of the chain Promise.try(..).then(..).catch(..) runs: .then of
\* a resolved promise sends the value; .then of a rejected one is passed
\* over and .catch, one link further, is queued; .catch sends the error
RunCallback ==
    /\ callbackQueue # <<>>
    /\ LET n == NextCallback(callbackQueue)
           cb == callbackQueue[n]
           id == cb.invocationId
           rest == SubSeq(callbackQueue, 1, n - 1)
                   \o SubSeq(callbackQueue, n + 1, Len(callbackQueue))
           o == invocations[id].outcome
       IN  /\ lastOp' = Op("callback", "", NotAHandler, id)
           /\ IF cb.stage = "then" /\ o.ok
              THEN /\ sent' = Append(sent, ThenMessage(id, o.value))
                   /\ callbackQueue' = rest
                   /\ invocations' = [invocations EXCEPT ![id].status = "reported"]
              ELSE IF cb.stage = "then"
              THEN /\ callbackQueue' = Append(rest, [invocationId |-> id, stage |-> "catch"])
                   /\ UNCHANGED <<sent, invocations>>
              ELSE /\ sent' = Append(sent, CatchMessage(id, o.error))
                   /\ callbackQueue' = rest
                   /\ invocations' = [invocations EXCEPT ![id].status = "reported"]
    /\ UNCHANGED <<pc, registryVars, warnings, modifiedCfg, caught, registerCalls, settleOrder,
                   received, configVars>>

----------------------------------------------------------------------------

Next ==
    \/ RunSetupNodeEvents
    \/ \E in \in RegInputs : Register(in[1], in[2], MaxRegisterCalls)
    \/ \E result \in SetupResults : SetupReturns(result)
    \/ \E v \in ThrownValues : SetupThrows(v)
    \/ Tap
    \/ Then
    \/ Catch

Spec == Init /\ [][Next]_vars

\* the setup routine of the sessions whose handlers are executed: the calls
\* on(event, handler) it makes, in order
ExecSetupRoutine ==
    <<<<"task", Obj(M1)>>, <<"before:run", Fn("f1")>>, <<"task", Obj(M3)>>,
      <<"before:run", Fn("f2")>>, <<"task", Obj(M2)>>>>

\* its next call, made before it returns
ExecRegister ==
    /\ pc = "setup"
    /\ registerCalls < Len(ExecSetupRoutine)
    /\ Register(ExecSetupRoutine[registerCalls + 1][1], ExecSetupRoutine[registerCalls + 1][2],
                MaxExecRegisterCalls)

\* the parent sends execute:plugins once it has the outcome of the setup
ExecuteAfterSetup(event, eventId, task, arg) ==
    /\ pc \in {"done", "failed"}
    /\ Execute(event, eventId, task, arg)

NextExecute ==
    \/ RunSetupNodeEvents
    \/ ExecRegister
    \/ SetupReturns(NoCfgResult)
    \/ SetupThrows(PlainError)
    \/ Tap
    \/ Then
    \/ Catch
    \/ \E event \in ExecEvents : \E eventId \in ExecEventIds(event) :
           \E a \in ExecArgs(event) : ExecuteAfterSetup(event, eventId, a[1], a[2])
    \/ \E id \in InvocationIds : \E o \in Outcomes : Settle(id, o)
    \/ RunCallback

SpecExecute == Init /\ [][NextExecute]_vars

----------------------------------------------------------------------------
(* User code that writes to the configuration object it was given *)

\* the assignments user code makes
MaxWrites == 2

\* config[key] = value, or config[testingType][key] = value: the setter of
\* the property throws, or the value is stored
WriteOption(sc, key, value) ==
    /\ pc # "constructed"
    /\ lastWrite.n < MaxWrites
    /\ config.cfg[sc].present
    /\ IF config.setters[sc][key] # ""
       THEN /\ lastWrite' = Write(lastWrite.n + 1, sc, key, value,
                                  throwInvalidOptionError(config.setters[sc][key]))
            /\ UNCHANGED config
       ELSE /\ lastWrite' = Write(lastWrite.n + 1, sc, key, value, NothingThrown)
            /\ config' = [config EXCEPT !.cfg[sc].opts[key] = value]
    /\ lastOp' = Op("write", "", NotAHandler, "")
    /\ UNCHANGED <<pc, registryVars, sent, warnings, modifiedCfg, caught, registerCalls,
                   execVars>>

\* config[testingType] = { .. }: no setter guards the testing type itself,
\* and the object put there has none
ReplaceTestingType(tt, opts) ==
    /\ pc # "constructed"
    /\ lastWrite.n < MaxWrites
    /\ lastWrite' = Write(lastWrite.n + 1, "root", tt, "truthy", NothingThrown)
    /\ config' = [config EXCEPT !.cfg[tt] = [present |-> TRUE, opts |-> opts],
                                !.setters[tt] = [k \in CfgKeys |-> ""]]
    /\ lastOp' = Op("replace", "", NotAHandler, "")
    /\ UNCHANGED <<pc, registryVars, sent, warnings, modifiedCfg, caught, registerCalls,
                   execVars>>

\* the configurations the parent passes: of the current format, and with
\* options of the format before
InitialConfigs == {CleanCfg, DefaultConfig} \cup SampleCfgs

\* the objects user code puts in the place of a testing type
ScopeObjects == {NoOpts, [NoOpts EXCEPT !["integrationFolder"] = "truthy"]}

InitConfig ==
    /\ config \in {ConfigObject(c) : c \in InitialConfigs}
    /\ InitRunPlugins

\* the setup routine returns the object it was given, or nothing, or lets
\* what an assignment threw escape
NextConfig ==
    \/ RunSetupNodeEvents
    \/ \E sc \in CfgScopes : \E key \in CfgKeys : \E value \in {"truthy", "falsy"} :
           WriteOption(sc, key, value)
    \/ \E tt \in Range(testingTypes) : \E opts \in ScopeObjects : ReplaceTestingType(tt, opts)
    \/ SetupReturns(NoCfgResult)
    \/ SetupReturns(CfgResult(config.cfg))
    \/ lastWrite.thrown # NothingThrown /\ SetupThrows(lastWrite.thrown)
    \/ Tap
    \/ Then
    \/ Catch

SpecConfig == InitConfig /\ [][NextConfig]_vars

----------------------------------------------------------------------------
(* Setup routines that return a configuration object of their own *)

\* the options a returned configuration sets
MaxOptionsSet == 2

\* an option of the root or of a testing type
Slots == CfgScopes \X CfgKeys
\* the configuration that sets the options of S as val says, with the
\* testing types there that have an option set
CfgOf(S, val) ==
    [sc \in CfgScopes |->
        [present |-> (sc = "root" \/ \E k \in CfgKeys : <<sc, k>> \in S),
         opts |-> [k \in CfgKeys |-> IF <<sc, k>> \in S THEN val[<<sc, k>>] ELSE "undefined"]]]
\* every configuration with at most MaxOptionsSet options set, truthy or falsy
ValidateInputs ==
    UNION {{CfgOf(S, val) : val \in [S -> {"falsy", "truthy"}]} :
               S \in {T \in SUBSET Slots : Cardinality(T) <= MaxOptionsSet}}

NextValidate ==
    \/ RunSetupNodeEvents
    \/ \E cfg \in ValidateInputs : SetupReturns(CfgResult(cfg))
    \/ SetupReturns(NoCfgResult)
    \/ Tap
    \/ Then
    \/ Catch

SpecValidate == Init /\ [][NextValidate]_vars

----------------------------------------------------------------------------
(* Properties of the registry *)

\* the last step was a call of the register callback by user code
Registered == lastOp'.op = "register"
\* ... that the validator accepted
RegisteredValid == Registered /\ validateEvent(lastOp'.event, lastOp'.handler).isValid
\* ... for "task", with a task registration in place
RegisteredTaskAgain ==
    RegisteredValid /\ lastOp'.event = "task" /\ TaskIds(registeredEventsById) # {}
\* ... for "task", with none in place
RegisteredTaskFirst ==
    RegisteredValid /\ lastOp'.event = "task" /\ TaskIds(registeredEventsById) = {}
\* ... for "dev-server:start", with a dev server registered
RegisteredDevServerAgain ==
    /\ RegisteredValid
    /\ lastOp'.event = "dev-server:start"
    /\ \E i \in DOMAIN registeredEventsById : registeredEventsById[i].event = "dev-server:start"

SetupErrors == {i \in DOMAIN sent : sent[i].type = "setupTestingType:error"}
SetupReplies == {i \in DOMAIN sent : sent[i].type = "setupTestingType:reply"}

\* s is a prefix of t
IsPrefix(s, t) == Len(s) <= Len(t) /\ SubSeq(t, 1, Len(s)) = s

\* the task object of the registry
TaskMapOf(byId) == FindTask(byId).handler.map

\* C1: registration ids are given in call order: the n-th stored
\* registration has id n-1, the counter is the number of stored
\* registrations, a step never renumbers or drops a stored registration
\* (no id is reused), every stored registration takes exactly one id, and a
\* merge of "task" takes none.
C1_IdsInCallOrder ==
    [][/\ \A i \in DOMAIN registrations' : registrations'[i].eventId = i - 1
       /\ Len(registrations') = eventIdCount'
       /\ DOMAIN registeredEventsById' = 0..(eventIdCount' - 1)
       /\ IsPrefix(registrations, registrations')
       /\ RegisteredTaskAgain => eventIdCount' = eventIdCount]_vars

\* a merge and a rejected call have happened, and three ids are given
C1_Witness ==
    /\ eventIdCount = 3
    /\ registerCalls = 3
    /\ SetupErrors # {}
    /\ TaskIds(registeredEventsById) # {}
    /\ Keys(TaskMapOf(registeredEventsById)) = TaskNames

\* C2: there is never more than one registration of "task"; the first
\* accepted registration of "task" takes an id, every later one leaves the
\* id, the counter and the list of registrations as they are.
C2_OneTaskRegistration ==
    [][/\ Cardinality(TaskIds(registeredEventsById')) <= 1
       /\ Cardinality({i \in DOMAIN registrations' : registrations'[i].event = "task"}) <= 1
       /\ RegisteredTaskFirst =>
              /\ TaskIds(registeredEventsById') = {eventIdCount}
              /\ eventIdCount' = eventIdCount + 1
       /\ RegisteredTaskAgain =>
              /\ TaskIds(registeredEventsById') = TaskIds(registeredEventsById)
              /\ eventIdCount' = eventIdCount
              /\ registrations' = registrations
              /\ registeredEventsByName' = registeredEventsByName]_vars

\* "task" was registered three times
C2_Witness ==
    /\ registerCalls = 3
    /\ Len(warnings) = 2
    /\ Cardinality(TaskIds(registeredEventsById)) = 1
    /\ lastOp.op = "register" /\ lastOp.event = "task"

\* C3: a later accepted registration of "task" leaves one registration
\* whose keys are the union of the keys of both objects; a key of the later
\* object is bound to the later handler, a key of the earlier object alone
\* keeps its handler; the call warns once, with the keys the two objects
\* share, if they share one, and not at all if they share none.
C3_TaskMerge ==
    [][RegisteredTaskAgain =>
          LET earlier == TaskMapOf(registeredEventsById)
              later == lastOp'.handler.map
              merged == TaskMapOf(registeredEventsById')
              shared == Keys(earlier) \cap Keys(later)
          IN  /\ Cardinality(TaskIds(registeredEventsById')) = 1
              /\ Keys(merged) = Keys(earlier) \cup Keys(later)
              /\ \A k \in Keys(later) : merged[k] = later[k]
              /\ \A k \in Keys(earlier) \ Keys(later) : merged[k] = earlier[k]
              /\ warnings' = IF shared = {} THEN warnings ELSE Append(warnings, shared)]_vars

\* a merge of objects that share t1, the later one adding t2
C3_Witness ==
    /\ lastOp.op = "register" /\ lastOp.event = "task" /\ lastOp.handler = Obj(M3)
    /\ warnings = <<{"t1"}>>
    /\ TaskIds(registeredEventsById) # {}
    /\ TaskMapOf(registeredEventsById) = M3

\* C4: a second registration of "dev-server:start" sends the error of a
\* double registration and changes neither the counter, nor the
\* registration of the first (its handler included), nor the list.
C4_SecondDevServer ==
    [][RegisteredDevServerAgain =>
          /\ sent' = Append(sent, SetupError(
                 getError("SETUP_NODE_EVENTS_DO_NOT_SUPPORT_DEV_SERVER", requiredFile, "", "")))
          /\ UNCHANGED registryVars]_vars

\* the second registration came with another handler than the first
C4_Witness ==
    /\ lastOp.op = "register" /\ lastOp.event = "dev-server:start"
    /\ lastOp.handler = Fn("f2")
    /\ \E i \in DOMAIN registeredEventsById :
          registeredEventsById[i] = [event |-> "dev-server:start", handler |-> Fn("f1")]
    /\ \E i \in SetupErrors : sent[i].error.type = "SETUP_NODE_EVENTS_DO_NOT_SUPPORT_DEV_SERVER"

\* C5: a call the validator rejects sends one error, leaves the position
\* of load() where it is (nothing is thrown into the setup routine) and
\* leaves the counter, both maps and the list as they are; a later call
\* that is accepted, and is neither a merge nor a second dev server, is
\* stored under the next id whatever was rejected before.
C5_RejectedRegistration ==
    [][/\ (Registered /\ ~RegisteredValid) =>
              /\ Len(sent') = Len(sent) + 1
              /\ IsPrefix(sent, sent')
              /\ sent'[Len(sent')].type = "setupTestingType:error"
              /\ sent'[Len(sent')].error.type \in
                     {"PLUGINS_INVALID_EVENT_NAME_ERROR", "CONFIG_FILE_SETUP_NODE_EVENTS_ERROR"}
              /\ UNCHANGED <<registryVars, pc, caught>>
       /\ (RegisteredValid /\ ~RegisteredTaskAgain /\ ~RegisteredDevServerAgain) =>
              /\ eventIdCount' = eventIdCount + 1
              /\ registeredEventsById'[eventIdCount] =
                     [event |-> lastOp'.event, handler |-> lastOp'.handler]
              /\ sent' = sent]_vars

\* an accepted call was stored after a rejected one
C5_Witness ==
    /\ lastOp.op = "register"
    /\ validateEvent(lastOp.event, lastOp.handler).isValid
    /\ eventIdCount = 3
    /\ registrations[3].event = lastOp.event
    /\ \E i \in SetupErrors : sent[i].error.type = "PLUGINS_INVALID_EVENT_NAME_ERROR"
    /\ pc = "setup"

----------------------------------------------------------------------------
(* Properties of the outcome of load() *)

\* the errors the register callback sends for a call it refuses
IsRegistrationError(m) ==
    /\ m.type = "setupTestingType:error"
    /\ \/ m.error.type \in {"PLUGINS_INVALID_EVENT_NAME_ERROR",
                            "SETUP_NODE_EVENTS_DO_NOT_SUPPORT_DEV_SERVER"}
       \/ m.error.type = "CONFIG_FILE_SETUP_NODE_EVENTS_ERROR" /\ m.error.cause = "invalid handler"

\* the error the claim has the chain of load() report for the value v
Classified(v) ==
    IF v.isCypressErr
    THEN v.err
    ELSE Err("CONFIG_FILE_SETUP_NODE_EVENTS_ERROR", requiredFile, testingType, v.err.type)

\* C6: whatever the setup routine, the default preprocessor or the
\* validation of the configuration threw, null and undefined included, the
\* catch of load() sends exactly one setup error, the thrown error itself
\* if it is a Cypress error and else the setup error that names the
\* project file and the testing type, and no reply has been or is sent.
C6_FailureReportedOnce ==
    [][lastOp'.op = "catch" =>
          /\ sent' = Append(sent, SetupError(Classified(caught)))
          /\ SetupReplies = {}]_vars

\* C7 as stated: a session never sends both a setup error and a reply, and
\* never more than one reply.
C7_SingleOutcome ==
    /\ Cardinality(SetupReplies) <= 1
    /\ ~(SetupErrors # {} /\ SetupReplies # {})

\* C7, amended: a session sends at most one reply, and never both a reply
\* and the setup error of the catch of load(); the setup errors that go
\* with a reply are those of calls the register callback refused.
C7_SingleOutcomeOfLoad ==
    /\ Cardinality(SetupReplies) <= 1
    /\ pc = "failed" => SetupReplies = {}
    /\ SetupReplies # {} =>
          /\ pc = "done"
          /\ \A i \in SetupErrors : IsRegistrationError(sent[i])

\* a reply was sent after the error of a refused call
C7_Witness ==
    /\ pc = "done"
    /\ \E i \in SetupErrors : \E j \in SetupReplies : i < j

----------------------------------------------------------------------------
(* Properties of the invocation outcomes *)

\* the places of sent that hold the outcome of invocation id
OutcomesOf(id) ==
    {i \in DOMAIN sent : sent[i].type = "promise:fulfilled" /\ sent[i].invocationId = id}
\* the place of the one outcome of invocation id, 0 if there is none
OutcomePos(id) == IF OutcomesOf(id) = {} THEN 0 ELSE CHOOSE i \in OutcomesOf(id) : TRUE
\* the place of invocation id in the order of settling, 0 if it has not settled
SettlePos(id) ==
    IF \E i \in DOMAIN settleOrder : settleOrder[i] = id
    THEN CHOOSE i \in DOMAIN settleOrder : settleOrder[i] = id
    ELSE 0
\* the callbacks queued for invocation id
QueuedFor(id) == {i \in DOMAIN callbackQueue : callbackQueue[i].invocationId = id}

\* the message is an outcome of an invocation that was made, under its id
WellFormed(m) ==
    /\ m.invocationId \in Used
    /\ invocations[m.invocationId].status = "reported"
    /\ Cardinality(OutcomesOf(m.invocationId)) = 1
    /\ IF invocations[m.invocationId].outcome.ok
       THEN m.error = NoErr
       ELSE m.error = invocations[m.invocationId].outcome.error /\ m.value = Undefined

\* C8: of two invocations, if the handler of b resolved before the handler
\* of a settled, the outcome of b is sent before the outcome of a, whichever
\* was asked for first; and every outcome sent is well formed: it carries
\* the id of its own invocation and that invocation's result.
C8_SettleOrder ==
    /\ \A a, b \in InvocationIds :
          (/\ SettlePos(b) > 0
           /\ SettlePos(b) < SettlePos(a)
           /\ invocations[b].outcome.ok
           /\ OutcomePos(a) > 0)
          => (OutcomePos(b) > 0 /\ OutcomePos(b) < OutcomePos(a))
    /\ \A i \in DOMAIN sent : sent[i].type = "promise:fulfilled" => WellFormed(sent[i])

\* A was asked for first, the handler of B resolved first, both are reported
C8_Witness ==
    /\ settleOrder = <<"B", "A">>
    /\ invocations["A"].called # "none" /\ invocations["B"].called # "none"
    /\ invocations["B"].outcome.ok
    /\ OutcomePos("B") > 0 /\ OutcomePos("B") < OutcomePos("A")

\* C9: an invocation that is reported has exactly one outcome in sent, one
\* that is not has none, and one that has settled without being reported
\* has its callback queued; the outcome carries the id of the invocation,
\* with a null error and the result (undefined as its sentinel) if the
\* handler resolved, with the error and an undefined value if it threw or
\* rejected; and the callback of one invocation leaves the records of the
\* others, what was sent before and the callbacks queued for the others as
\* they are.
C9_OneOutcomeEach ==
    /\ [](\A id \in InvocationIds :
            LET inv == invocations[id]
            IN  /\ inv.status = "reported" =>
                      /\ Cardinality(OutcomesOf(id)) = 1
                      /\ LET m == sent[OutcomePos(id)]
                         IN  IF inv.outcome.ok
                             THEN /\ m.error = NoErr
                                  /\ m.value = IF inv.outcome.value = Undefined
                                               THEN Str(UNDEFINED_SERIALIZED)
                                               ELSE inv.outcome.value
                             ELSE /\ m.error = inv.outcome.error
                                  /\ m.value = Undefined
                /\ inv.status # "reported" => OutcomesOf(id) = {}
                /\ inv.status = "settled" => Cardinality(QueuedFor(id)) = 1)
    /\ [][lastOp'.op = "callback" =>
            /\ IsPrefix(sent, sent')
            /\ \A id \in InvocationIds \ {lastOp'.invocationId} :
                  /\ invocations'[id] = invocations[id]
                  /\ Cardinality(QueuedFor(id)') = Cardinality(QueuedFor(id))]_vars

\* a handler that rejected and one that resolved after it are both reported
C9_Witness ==
    /\ Len(settleOrder) = 2
    /\ ~invocations[settleOrder[1]].outcome.ok
    /\ invocations[settleOrder[2]].outcome.ok
    /\ \A id \in InvocationIds :
          invocations[id].status = "reported" /\ invocations[id].called # "none"

\* C10: the outcome of a handler that resolved to undefined carries the
\* sentinel, and the receiver that decodes what ipc delivers recovers
\* undefined; the outcome of a handler that resolved to anything else, null
\* included, carries that value as it is.
C10_UndefinedSentinel ==
    \A id \in InvocationIds :
        (invocations[id].status = "reported" /\ invocations[id].outcome.ok) =>
            LET v == invocations[id].outcome.value
                m == sent[OutcomePos(id)]
            IN  /\ v = Undefined =>
                      /\ m.value = Str(UNDEFINED_SERIALIZED)
                      /\ ReceiverDecode(Transport(m.value)) = Undefined
                /\ v # Undefined => m.value = v

\* a handler resolved to undefined, another to null, and both are reported
C10_Witness ==
    /\ invocations["A"].status = "reported" /\ invocations["A"].called # "none"
    /\ invocations["A"].outcome = Resolved(Undefined)
    /\ invocations["B"].status = "reported" /\ invocations["B"].called # "none"
    /\ invocations["B"].outcome = Resolved(Null)

----------------------------------------------------------------------------
(* Properties of the task events *)

\* the invocations of "task" that execute() was asked for
TaskInvocations == {id \in InvocationIds : invocations[id].event = "task"}

\* the name the parent sent is bound to a function in the registration the
\* parent named
BoundToCallable(id) ==
    LET eventId == invocations[id].eventId
    IN  /\ eventId \in DOMAIN registeredEventsById
        /\ registeredEventsById[eventId].handler.kind = "obj"
        /\ registeredEventsById[eventId].handler.map[received[id].task] \in Fns

\* the no-argument sentinel the parent sends in the place of undefined
NoArgumentSentinel == Flagged(NO_ARGUMENT)

\* C11: an invocation of "task" whose name is not bound to a function
\* calls no handler and resolves to the unhandled marker: its promise is
\* not rejected and, once reported, its outcome carries a null error and
\* the marker as value; an invocation whose name is bound to a function
\* calls that function, with the one argument the parent sent, decoded.
C11_UnhandledTask ==
    \A id \in TaskInvocations :
        LET inv == invocations[id]
        IN  IF BoundToCallable(id)
            THEN /\ inv.called =
                        registeredEventsById[inv.eventId].handler.map[received[id].task]
                 /\ inv.arg = IF received[id].arg = NoArgumentSentinel
                               THEN Undefined ELSE received[id].arg
            ELSE /\ inv.called = "none"
                 /\ inv.status \in {"settled", "reported"}
                 /\ inv.outcome = Resolved(Str(UNHANDLED))
                 /\ inv.status = "reported" =>
                        /\ Cardinality(OutcomesOf(id)) = 1
                        /\ sent[OutcomePos(id)].error = NoErr
                        /\ sent[OutcomePos(id)].value = Str(UNHANDLED)

\* "task" was invoked with a name bound to something that is no function,
\* and is reported; and with a name bound to a function, which was called
C11_Witness ==
    /\ invocations["A"].event = "task" /\ ~BoundToCallable("A")
    /\ received["A"].task = "t2"
    /\ TaskIds(registeredEventsById) = {invocations["A"].eventId}
    /\ "t2" \in Keys(TaskMapOf(registeredEventsById))
    /\ invocations["A"].status = "reported"
    /\ sent[OutcomePos("A")].value = Str(UNHANDLED)
    /\ invocations["B"].event = "task" /\ BoundToCallable("B")
    /\ invocations["B"].called \in Fns

\* C12: the handler of a task the parent sent the no-argument sentinel for
\* is called with undefined; the handler of a task the parent sent any
\* other argument for, null included, is called with that argument.
C12_NoArgumentSentinel ==
    \A id \in TaskInvocations :
        invocations[id].called # "none" =>
            /\ received[id].arg = NoArgumentSentinel => invocations[id].arg = Undefined
            /\ received[id].arg # NoArgumentSentinel => invocations[id].arg = received[id].arg

\* one handler was called for the sentinel, another for null
C12_Witness ==
    /\ invocations["A"].event = "task" /\ invocations["A"].called \in Fns
    /\ received["A"].arg = NoArgumentSentinel /\ invocations["A"].arg = Undefined
    /\ invocations["B"].event = "task" /\ invocations["B"].called \in Fns
    /\ received["B"].arg = Null /\ invocations["B"].arg = Null

----------------------------------------------------------------------------
(* Properties of execute() *)

\* the cases of the switch of execute()
ExecuteCases ==
    {"dev-server:start", "file:preprocessor", "before:run", "before:spec", "after:run",
     "after:spec", "after:screenshot", "task", "_get:task:keys", "_get:task:body",
     "before:browser:launch"}

\* the invocations whose event is none of the cases
Unrecognized == {id \in Used : invocations[id].event \notin ExecuteCases}

\* C16: an execute for an event that is none of the cases sends nothing,
\* calls no handler, queues nothing and leaves the registry as it is; and
\* no outcome and no callback of such an invocation ever exists.
C16_UnrecognizedIsNoOp ==
    /\ [](\A id \in Unrecognized :
            /\ invocations[id].called = "none"
            /\ invocations[id].outcome = NoOutcome
            /\ OutcomesOf(id) = {}
            /\ QueuedFor(id) = {}
            /\ \A i \in DOMAIN settleOrder : settleOrder[i] # id)
    /\ [][(lastOp'.op = "execute" /\ lastOp'.event \notin ExecuteCases) =>
            /\ UNCHANGED <<registryVars, sent, warnings, callbackQueue, settleOrder, pc>>
            /\ \A id \in InvocationIds \ {lastOp'.invocationId} :
                  invocations'[id] = invocations[id]]_vars

\* an execute for an unexpected event came first; the invocation that came
\* after it is reported, the unexpected one is not
C16_Witness ==
    /\ invocations["A"].event = "unexpected:event"
    /\ invocations["A"].status = "ignored"
    /\ invocations["B"].status = "reported" /\ invocations["B"].called \in Fns
    /\ Len(sent) = 2 /\ OutcomesOf("B") = {2}

\* the invocations of the two events that ask about the tasks
TaskQueries ==
    {id \in Used : invocations[id].event \in {"_get:task:keys", "_get:task:body"}}

\* C18: every execute of "_get:task:keys" or "_get:task:body", whatever is
\* registered, a session without a registration of "task" included, gets an
\* outcome under its invocation id: execute() is never left by an exception
\* with no promise made, the promise of the invocation is settled and its
\* callback is queued or has sent the one outcome.
C18_TaskQueryAlwaysAnswered ==
    \A id \in TaskQueries :
        /\ invocations[id].status \in {"settled", "reported"}
        /\ invocations[id].status = "settled" => QueuedFor(id) # {}
        /\ invocations[id].status = "reported" => Cardinality(OutcomesOf(id)) = 1

\* the calls on('task', ..) the setup routine has made, in order
IsTaskCall(c) == c[1] = "task"
TaskCalls == SelectSeq(SubSeq(ExecSetupRoutine, 1, registerCalls), IsTaskCall)
\* every name one of them registered
RegisteredTaskNames == UNION {Keys(TaskCalls[i][2].map) : i \in DOMAIN TaskCalls}
\* what the latest of them that has the name binds it to
LatestBound(task) ==
    LET has == {i \in DOMAIN TaskCalls : task \in Keys(TaskCalls[i][2].map)}
    IN  IF has = {} THEN "absent"
        ELSE TaskCalls[CHOOSE i \in has : \A j \in has : j <= i][2].map[task]

\* the value the claim has the invocation resolve to
TaskQueryAnswer(id) ==
    IF invocations[id].event = "_get:task:keys"
    THEN Arr(RegisteredTaskNames)
    ELSE IF LatestBound(received[id].task) \in Fns
    THEN SourceText(LatestBound(received[id].task))
    ELSE Str("")

\* C19: once the setup routine has registered tasks, "_get:task:keys"
\* resolves to the names of all the task objects registered, and
\* "_get:task:body" to the source text of the function the latest of them
\* binds the name to, the empty string if that is no function or the name
\* is bound by none; no handler is called for either, neither a task nor
\* the placeholder registered for the event; the outcome sent carries that
\* value.
C19_TaskQueries ==
    \A id \in TaskQueries :
        TaskCalls # <<>> =>
            /\ invocations[id].called = "none"
            /\ invocations[id].status \in {"settled", "reported"}
            /\ invocations[id].outcome = Resolved(TaskQueryAnswer(id))
            /\ invocations[id].status = "reported" =>
                   /\ sent[OutcomePos(id)].error = NoErr
                   /\ sent[OutcomePos(id)].value = TaskQueryAnswer(id)

\* after two task objects, the later one binding t1 anew and t2 to no
\* function: the keys are both names, and the body of t1 is the later text
C19_Witness ==
    /\ Len(TaskCalls) = 2
    /\ invocations["A"].event = "_get:task:keys" /\ invocations["A"].status = "reported"
    /\ sent[OutcomePos("A")].value = Arr({"t1", "t2"})
    /\ invocations["B"].event = "_get:task:body" /\ invocations["B"].status = "reported"
    /\ received["B"].task = "t1"
    /\ sent[OutcomePos("B")].value = SourceText("f2")

----------------------------------------------------------------------------
(* Properties of the life of a registration *)

\* the last step was an accepted call for an event, not "task" and not
\* "dev-server:start", that has a registration already
RegisteredOrdinaryAgain ==
    /\ RegisteredValid
    /\ lastOp'.event \notin {"task", "dev-server:start"}
    /\ \E i \in DOMAIN registeredEventsById : registeredEventsById[i].event = lastOp'.event

\* C20: a registration is never deleted: in every step each id given keeps
\* a registration of the same event, in the map and in the list, and
\* keeps its handler, but for the one registration of "task", whose
\* handler changes only in a later accepted call for "task", by the merge;
\* an accepted call for an event like "before:run" that is registered
\* already takes a new id and leaves every earlier registration, with its
\* handler, under its id.
C20_NeverDeleted ==
    [][/\ \A i \in DOMAIN registeredEventsById :
             /\ i \in DOMAIN registeredEventsById'
             /\ registeredEventsById'[i].event = registeredEventsById[i].event
             /\ registeredEventsById'[i].handler # registeredEventsById[i].handler =>
                    /\ registeredEventsById[i].event = "task"
                    /\ RegisteredTaskAgain
                    /\ \A k \in TaskNames :
                          registeredEventsById'[i].handler.map[k] =
                              IF lastOp'.handler.map[k] # "absent"
                              THEN lastOp'.handler.map[k]
                              ELSE registeredEventsById[i].handler.map[k]
       /\ IsPrefix(registrations, registrations')
       /\ RegisteredOrdinaryAgain =>
             /\ eventIdCount' = eventIdCount + 1
             /\ registeredEventsById'[eventIdCount] =
                    [event |-> lastOp'.event, handler |-> lastOp'.handler]
             /\ \A i \in DOMAIN registeredEventsById :
                    registeredEventsById'[i] = registeredEventsById[i]]_vars

\* "before:run" was registered twice: both handlers are there, each under
\* its own id
C20_Witness ==
    /\ lastOp.op = "register" /\ lastOp.event = "before:run"
    /\ eventIdCount = 4
    /\ registeredEventsById[2] = [event |-> "before:run", handler |-> Fn("f1")]
    /\ registeredEventsById[3] = [event |-> "before:run", handler |-> Fn("f2")]
    /\ registrations[3] = [event |-> "before:run", eventId |-> 2]
    /\ registrations[4] = [event |-> "before:run", eventId |-> 3]

----------------------------------------------------------------------------
(* Properties of the steps of load() *)

\* the default preprocessor is registered
HasDefaultPreprocessor ==
    \E i \in DOMAIN registeredEventsById :
        registeredEventsById[i] =
            [event |-> "file:preprocessor", handler |-> getDefaultPreprocessor]
\* a registration of "file:preprocessor" exists
HasPreprocessor ==
    \E i \in DOMAIN registeredEventsById : registeredEventsById[i].event = "file:preprocessor"
\* the chain of load() was rejected
SetupFailed == pc \in {"catch", "failed", "unhandled"}
\* every reply lists a registration of "file:preprocessor"
RepliesListPreprocessor ==
    \A i \in SetupReplies :
        \E j \in DOMAIN sent[i].registrations :
            sent[i].registrations[j].event = "file:preprocessor"
\* the step registers the default preprocessor under the next id
DefaultRegistered ==
    /\ eventIdCount' = eventIdCount + 1
    /\ registrations' =
           Append(registrations, [event |-> "file:preprocessor", eventId |-> eventIdCount])
    /\ registeredEventsById'[eventIdCount] =
           [event |-> "file:preprocessor", handler |-> getDefaultPreprocessor]
    /\ SetupReplies' = {} /\ SetupErrors' = SetupErrors

\* C15 as stated: in the step that follows the return of the setup
\* routine, the default preprocessor is registered under the next id,
\* before anything is reported, if no "file:preprocessor" is registered,
\* and nothing is registered if one is; every reply lists a
\* "file:preprocessor"; and a session whose setup failed has no default
\* preprocessor registered.
C15_DefaultPreprocessor ==
    /\ [](RepliesListPreprocessor /\ (SetupFailed => ~HasDefaultPreprocessor))
    /\ [][lastOp'.op = "tap" =>
            IF HasPreprocessor THEN UNCHANGED registryVars ELSE DefaultRegistered]_vars

\* C15, amended: the default preprocessor is registered in that step
\* unless its factory throws, which rejects the chain with nothing
\* registered; every reply lists a "file:preprocessor"; a session whose
\* setup failed has a default preprocessor registered only if what failed
\* is the validation of the configuration the setup routine returned,
\* which runs after that step.
C15_DefaultPreprocessorBeforeValidation ==
    /\ [](/\ RepliesListPreprocessor
          /\ (SetupFailed /\ HasDefaultPreprocessor) =>
                 /\ ValidationOf(modifiedCfg) # NothingThrown
                 /\ caught = ValidationOf(modifiedCfg))
    /\ [][lastOp'.op = "tap" =>
            IF HasPreprocessor THEN UNCHANGED registryVars /\ pc' = "then"
            ELSE \/ DefaultRegistered /\ pc' = "then"
                 \/ UNCHANGED registryVars /\ pc' = "catch"]_vars

\* the setup routine registered no preprocessor and returned; the reply
\* lists the default preprocessor, under the id that came next
C15_Witness ==
    /\ pc = "done"
    /\ HasDefaultPreprocessor
    /\ registerCalls = 1 /\ eventIdCount = 4
    /\ registeredEventsById[3].handler = getDefaultPreprocessor
    /\ \E i \in SetupReplies :
          sent[i].registrations[4] = [event |-> "file:preprocessor", eventId |-> 3]

----------------------------------------------------------------------------
(* Properties of the guard of the migrated options *)

\* the error of a migrated option that names key
MigratedOptionError(key) ==
    Thrown(FALSE, TRUE, Err("MIGRATED_OPTION_INVALID", "", "", key))

\* C13: once load() has put the setters on the configuration, before the
\* setup routine has returned and after, an assignment to one of the five
\* migrated keys at the top level throws the error of a migrated option
\* that names the key, an assignment to integrationFolder, componentFolder
\* or pluginsFile under e2e or component throws the error that names the
\* testing type and the key, and an assignment that throws leaves the
\* configuration as it was.
C13_WritesRaise ==
    [][lastOp'.op = "write" =>
          LET w == lastWrite'
          IN  /\ w.sc = "root" => w.thrown = MigratedOptionError(w.key)
              /\ (w.sc \in {"e2e", "component"}
                  /\ w.key \in {"integrationFolder", "componentFolder", "pluginsFile"}) =>
                     w.thrown = MigratedOptionError(ScopedKey(w.sc, w.key))
              /\ w.thrown # NothingThrown => config' = config]_vars

\* a forbidden option is set to a truthy value: one of the five at the top
\* level, or one of the three that are valid nowhere under a testing type
HasForbiddenOption(cfg) ==
    \/ \E k \in {"baseUrl", "supportFile", "integrationFolder", "componentFolder", "pluginsFile"} :
          cfg["root"].opts[k] = "truthy"
    \/ \E tt \in {"e2e", "component"} :
          \E k \in {"integrationFolder", "componentFolder", "pluginsFile"} :
             cfg[tt].present /\ cfg[tt].opts[k] = "truthy"

\* C14: the validation of a configuration the setup routine returned
\* fails, with the error of a migrated option, exactly if a forbidden
\* option is set to a truthy value; baseUrl and supportFile under a testing
\* type and options with a falsy value are accepted; and the validation
\* leaves the configuration as it is: the one validated is the one sent.
C14_ValidateIffForbidden ==
    [][(lastOp'.op = "then" /\ modifiedCfg.truthy) =>
          /\ modifiedCfg' = modifiedCfg
          /\ IF HasForbiddenOption(modifiedCfg.cfg)
             THEN /\ pc' = "catch"
                  /\ caught'.isCypressErr
                  /\ caught'.err.type = "MIGRATED_OPTION_INVALID"
                  /\ sent' = sent
             ELSE /\ pc' = "done"
                  /\ caught' = caught
                  /\ sent' = Append(sent, SetupReply(modifiedCfg, registrations))
                  /\ sent'[Len(sent')].setupConfig.cfg = modifiedCfg.cfg]_vars

\* a configuration with a truthy baseUrl under e2e and a falsy pluginsFile
\* at the top level was validated and sent
C14_Witness ==
    /\ pc = "done"
    /\ modifiedCfg.truthy
    /\ modifiedCfg.cfg["e2e"].opts["baseUrl"] = "truthy"
    /\ modifiedCfg.cfg["root"].opts["pluginsFile"] = "falsy"
    /\ \E i \in SetupReplies : sent[i].setupConfig = modifiedCfg

\* every setter of wrapNonMigratedOptions is on the configuration
GuardInstalled ==
    /\ \A k \in {"baseUrl", "supportFile", "integrationFolder", "componentFolder", "pluginsFile"} :
          config.setters["root"][k] = k
    /\ \A tt \in {"e2e", "component"} :
          /\ config.cfg[tt].present
          /\ \A k \in {"integrationFolder", "componentFolder", "pluginsFile"} :
                config.setters[tt][k] = ScopedKey(tt, k)

\* the order of the steps of load()
StepOrder ==
    {<<"constructed", "setup">>, <<"setup", "tap">>, <<"setup", "catch">>,
     <<"tap", "then">>, <<"tap", "catch">>, <<"then", "done">>, <<"then", "catch">>,
     <<"catch", "failed">>, <<"catch", "unhandled">>}

\* C17: load() goes through its steps in order.  The setters are on the
\* configuration whenever the setup routine runs or has run.  The step of
\* the default preprocessor comes after the setup routine returned and
\* before the validation, and sends no reply.  The validation comes last:
\* it fails, with nothing sent, exactly if the setup routine returned a
\* configuration and that has a forbidden option; if it returned nothing,
\* or a configuration without one, the reply is sent in that step, with the
\* configuration returned and the list of every registration made so far.
C17_SetupOrder ==
    /\ [](/\ pc # "constructed" => GuardInstalled
          /\ SetupReplies # {} => pc = "done")
    /\ [][/\ pc' # pc => <<pc, pc'>> \in StepOrder
          /\ lastOp'.op = "load" => pc = "constructed" /\ ~GuardInstalled
          /\ lastOp'.op = "setupReturns" => pc = "setup" /\ pc' = "tap"
          /\ lastOp'.op = "tap" =>
                /\ pc = "tap" /\ pc' \in {"then", "catch"}
                /\ sent' = sent /\ modifiedCfg' = modifiedCfg
          /\ lastOp'.op = "then" =>
                /\ pc = "then"
                /\ IF modifiedCfg.truthy /\ HasForbiddenOption(modifiedCfg.cfg)
                   THEN pc' = "catch" /\ sent' = sent
                   ELSE /\ pc' = "done"
                        /\ sent' = Append(sent, SetupReply(modifiedCfg, registrations))
                        /\ Len(sent'[Len(sent')].registrations) = eventIdCount
                        /\ \A i \in DOMAIN registeredEventsById :
                              sent'[Len(sent')].registrations[i + 1] =
                                  [event |-> registeredEventsById[i].event, eventId |-> i]]_vars

\* the setup routine registered three events and returned a configuration;
\* the default preprocessor was added, the configuration passed the
\* validation, and the reply lists the six registrations
C17_Witness ==
    /\ pc = "done" /\ lastOp.op = "then"
    /\ GuardInstalled
    /\ modifiedCfg.truthy /\ ~HasForbiddenOption(modifiedCfg.cfg)
    /\ HasDefaultPreprocessor
    /\ eventIdCount = 6
    /\ \E i \in SetupReplies :
          /\ Len(sent[i].registrations) = 6
          /\ sent[i].registrations[6].event = "file:preprocessor"
          /\ sent[i].setupConfig = modifiedCfg

----------------------------------------------------------------------------
(* Properties of the registry as a whole *)

\* C21: a step of an execute, whatever its event (the call of the handler
\* or of the task, the settling of the promise of a handler that resolved
\* or rejected later, the callback that sends the outcome), leaves the
\* counter, both maps and the list of registrations as they are.
C21_ExecuteKeepsRegistry ==
    [][lastOp'.op \in {"execute", "settle", "callback"} => UNCHANGED registryVars]_vars

\* a handler that rejected and a task that resolved are both reported, with
\* the registry the setup routine left: the internal events, the task
\* object, before:run and the default preprocessor
C21_Witness ==
    /\ invocations["A"].event = "before:run" /\ invocations["A"].called \in Fns
    /\ invocations["A"].status = "reported" /\ ~invocations["A"].outcome.ok
    /\ invocations["B"].event = "task" /\ invocations["B"].called \in Fns
    /\ invocations["B"].status = "reported" /\ invocations["B"].outcome.ok
    /\ eventIdCount = 5 /\ Len(registrations) = 5
    /\ DOMAIN registeredEventsByName =
          {"_get:task:body", "_get:task:keys", "task", "before:run", "file:preprocessor"}

\* the ids of the registrations of the event
IdsOf(event) ==
    {i \in DOMAIN registeredEventsById : registeredEventsById[i].event = event}

\* C22: once load() has started, ids 0 and 1 are those of "_get:task:body"
\* and "_get:task:keys"; every other registration, of the setup routine or
\* of the default preprocessor, has an id of 2 or more; no "task",
\* "dev-server:start" or "file:preprocessor" has id 0; and for each of
\* these three the id the map by name holds is truthy exactly if a
\* registration of the event exists.
C22_InternalEventsFirst ==
    pc # "constructed" =>
        /\ IdsOf("_get:task:body") = {0}
        /\ IdsOf("_get:task:keys") = {1}
        /\ \A i \in DOMAIN registeredEventsById :
              registeredEventsById[i].event \notin {"_get:task:body", "_get:task:keys"} => i >= 2
        /\ \A e \in {"task", "dev-server:start", "file:preprocessor"} :
              /\ 0 \notin IdsOf(e)
              /\ IdsOf(e) # {} <=>
                    (/\ e \in DOMAIN registeredEventsByName
                     /\ registeredEventsByName[e] # 0
                     /\ registeredEventsByName[e] \in IdsOf(e))

\* the setup routine registered a task object and a dev server, the
\* default preprocessor was added: they have ids 2, 3 and 4
C22_Witness ==
    /\ pc = "done"
    /\ IdsOf("task") = {2}
    /\ IdsOf("dev-server:start") = {3}
    /\ IdsOf("file:preprocessor") = {4}
    /\ registeredEventsById[4].handler = getDefaultPreprocessor

\* C23: the list of registrations has one entry for each id given, in the
\* order of the ids, which are 0 to eventIdCount - 1; the event of an entry
\* is the event the map by id holds under its id; and the map by name holds
\* the events that have a registration, each with the largest of its ids.
C23_ListAndMapsAgree ==
    /\ Len(registrations) = eventIdCount
    /\ DOMAIN registeredEventsById = 0..(eventIdCount - 1)
    /\ \A n \in DOMAIN registrations :
          /\ registrations[n].eventId = n - 1
          /\ registrations[n].event = registeredEventsById[n - 1].event
    /\ DOMAIN registeredEventsByName =
          {registeredEventsById[i].event : i \in DOMAIN registeredEventsById}
    /\ \A e \in DOMAIN registeredEventsByName :
          /\ registeredEventsByName[e] \in IdsOf(e)
          /\ \A i \in IdsOf(e) : i <= registeredEventsByName[e]

\* before:run was registered twice, around a task object: the map by name
\* holds the later of its ids
C23_Witness ==
    /\ eventIdCount = 5
    /\ IdsOf("before:run") = {2, 4}
    /\ IdsOf("task") = {3}
    /\ registeredEventsByName["before:run"] = 4
    /\ registrations[5] = [event |-> "before:run", eventId |-> 4]

====
